---- MODULE Spec2Model ----
(***************************************************************************)
(* Model of the chat store of frontend/src/stores/useChatStore.ts: the     *)
(* zustand store, the module-level socket.io client it registers its       *)
(* handlers on, and the axios requests it awaits.                          *)
(*                                                                         *)
(* The store runs on a single-threaded event loop.  A synchronous store    *)
(* method or one invocation of a socket listener is one atomic step.  An   *)
(* async method is one step up to its await (the request is then in        *)
(* `inflight`) and one step from the settlement of the request to its end. *)
(* The emitter of socket.io calls the listeners of an event one after the  *)
(* other, synchronously: `pending` counts the listeners still to be called *)
(* for `event`, and nothing else runs while it is positive.                *)
(***************************************************************************)
EXTENDS Integers, Sequences, FiniteSets, TLC

VARIABLES
    users,                      \* ChatStore.users: the cached directory
    isLoading,                  \* ChatStore.isLoading
    error,                      \* ChatStore.error: a string or Null
    isConnected,                \* ChatStore.isConnected
    messages,                   \* ChatStore.messages: the ledger
    notifications,              \* ChatStore.notifications
    unreadNotificationsCount,   \* ChatStore.unreadNotificationsCount
    lastMessageTime,            \* ChatStore.lastMessageTime: Map clerkId -> ms
    replyTo,                    \* ChatStore.replyTo: a message or NoMessage
    socketOpen,                 \* the module-level socket: connect() called, disconnect() not since
    listeners,                  \* the module-level socket: listeners registered per event kind
    emitted,                    \* the module-level socket: number of user_connected emits
    event,                      \* the inbound event being dispatched, or NoEvent
    pending,                    \* listeners of `event` still to be called
    inflight,                   \* the requests awaited by async store methods
    onlineUsers,                \* ChatStore.onlineUsers
    presenceLog,                \* the presence events delivered since the last users_online, it included
    sent,                       \* the module-level socket: number of send_message emits
    settled,                    \* how the promise of the async method ending in this step settled
    op                          \* the last operation that ran: name, argument, branch taken

vars == <<users, isLoading, error, isConnected, messages, notifications,
          unreadNotificationsCount, lastMessageTime, replyTo, socketOpen,
          listeners, emitted, event, pending, inflight, onlineUsers, presenceLog,
          sent, settled, op>>

presenceVars == <<onlineUsers, presenceLog>>

storeVars == <<users, isLoading, error, isConnected, messages, notifications,
               unreadNotificationsCount, lastMessageTime, replyTo>>

socketVars == <<socketOpen, listeners, emitted>>

----------------------------------------------------------------------------
(* Bounds of the model. *)

MaxMessages == 2        \* longest ledger explored
MaxNotifications == 2   \* longest notification list explored
MaxListeners == 2       \* most registrations of the handlers explored
MaxInflight == 2        \* most requests awaited at once
MaxFetched == 1         \* longest list a fetch returns
MaxPresenceLog == 3     \* most presence events delivered after (and with) a users_online
MaxSends == 1           \* most send_message emits explored

----------------------------------------------------------------------------
(* Values. *)

Null == "null"

\* replyTo: null
NoMessage == [_id |-> Null]

\* no inbound event is being dispatched
NoEvent == [kind |-> "none"]

Me == "u1"
Peers == {"u2", "u3"}
MsgIds == {"m1", "m2"}
\* the server stamps a message once: its id decides its createdAt
StampOf(id) == IF id = "m1" THEN "1970-01-01T00:00:01.000Z" ELSE "1970-01-01T00:00:02.000Z"
EventKinds == {"users_online", "user_connected", "user_disconnected",
               "receive_message", "message_unsent", "message_sent"}

\* new Date(createdAt).getTime() on the ISO strings the server stamps
DateGetTime(s) ==
    CASE s = "1970-01-01T00:00:01.000Z" -> 1000
      [] s = "1970-01-01T00:00:02.000Z" -> 2000

FullNameOf(id) == CASE id = "u2" -> "Bo" [] id = "u3" -> "Cy" [] OTHER -> "Al"

ImageUrlOf(id) == CASE id = "u2" -> "bo.png" [] id = "u3" -> "cy.png" [] OTHER -> "al.png"

User(id) == [clerkId |-> id, fullName |-> FullNameOf(id), imageUrl |-> ImageUrlOf(id)]

Message(id, from, to) ==
    [_id |-> id, senderId |-> from, receiverId |-> to, content |-> "hi",
     createdAt |-> StampOf(id)]

\* the messages the server pushes to this client with receive_message
InboundMessages == {Message(i, p, Me) : i \in MsgIds, p \in Peers}

\* the messages of this client the server echoes with message_sent
EchoedMessages == {Message(i, Me, p) : i \in MsgIds, p \in {"u2"}}

SeqsUpTo(S, n) == UNION {[1..k -> S] : k \in 0..n}

\* the lists GET /users and GET /users/search answer with
UserLists == {s \in SeqsUpTo({User(p) : p \in Peers}, MaxFetched + 1) :
                 \A i, j \in DOMAIN s : i # j => s[i].clerkId # s[j].clerkId}

\* the lists GET /users/messages/{peerId} answers with
Conversations(peer) ==
    {s \in SeqsUpTo({m \in InboundMessages \cup EchoedMessages :
                        peer \in {m.senderId, m.receiverId}}, MaxFetched) :
        \A i, j \in DOMAIN s : i # j => s[i]._id # s[j]._id}

\* what axios rejects with: error.response?.data?.message and error.message
AxiosErrors == {[response |-> "Unauthorized", message |-> "Request failed with status code 401"],
                [response |-> Null, message |-> "Network Error"]}

----------------------------------------------------------------------------
(* Array and Map helpers of the store. *)

\* a removal that takes out the first match only
FilterMessagesFirstOnly(msgs, messageId) ==
    IF \E i \in DOMAIN msgs : msgs[i]._id = messageId
    THEN LET i == CHOOSE k \in DOMAIN msgs :
                      /\ msgs[k]._id = messageId
                      /\ \A j \in 1..(k - 1) : msgs[j]._id # messageId
         IN  SubSeq(msgs, 1, i - 1) \o SubSeq(msgs, i + 1, Len(msgs))
    ELSE msgs

RECURSIVE FilterMessages(_, _)
\* msgs.filter((msg) => msg._id !== messageId)
FilterMessages(msgs, messageId) ==
    IF msgs = <<>> THEN <<>>
    ELSE IF Head(msgs)._id # messageId
         THEN <<Head(msgs)>> \o FilterMessages(Tail(msgs), messageId)
         ELSE FilterMessages(Tail(msgs), messageId)

RECURSIVE FilterNotifications(_, _)
\* ns.filter((n) => n.id !== notificationId)
FilterNotifications(ns, notificationId) ==
    IF ns = <<>> THEN <<>>
    ELSE IF Head(ns).id # notificationId
         THEN <<Head(ns)>> \o FilterNotifications(Tail(ns), notificationId)
         ELSE FilterNotifications(Tail(ns), notificationId)

\* ns.find((n) => n.id === notificationId): the index of the first match, 0 when none
FindNotification(ns, notificationId) ==
    IF \E i \in DOMAIN ns : ns[i].id = notificationId
    THEN CHOOSE i \in DOMAIN ns :
             /\ ns[i].id = notificationId
             /\ \A j \in 1..(i - 1) : ns[j].id # notificationId
    ELSE 0

\* a lookup that falls back on the first user of the directory
FindUserOrFirst(us, clerkId) ==
    IF \E i \in DOMAIN us : us[i].clerkId = clerkId
    THEN CHOOSE i \in DOMAIN us : us[i].clerkId = clerkId
    ELSE IF us # <<>> THEN 1 ELSE 0

\* us.find((u) => u.clerkId === clerkId): the index of the first match, 0 when none
FindUser(us, clerkId) ==
    IF \E i \in DOMAIN us : us[i].clerkId = clerkId
    THEN CHOOSE i \in DOMAIN us :
             /\ us[i].clerkId = clerkId
             /\ \A j \in 1..(i - 1) : us[j].clerkId # clerkId
    ELSE 0

\* new Map(m).set(k, v)
MapSet(m, k, v) == [x \in DOMAIN m \cup {k} |-> IF x = k THEN v ELSE m[x]]

\* a count with no floor
MaxZeroMissing(n) == n

\* Math.max(0, n)
MaxZero(n) == IF n > 0 THEN n ELSE 0

\* the record of an operation: its name, its argument, the branch it took and the
\* unread count it started from
Op(name, arg, branch) ==
    [name |-> name, arg |-> arg, branch |-> branch,
     unreadBefore |-> unreadNotificationsCount]

----------------------------------------------------------------------------
(* The store after create(), the socket after io(..., autoConnect: false). *)

Init ==
    /\ users = <<>>
    /\ isLoading = FALSE
    /\ error = Null
    /\ isConnected = FALSE
    /\ messages = <<>>
    /\ notifications = <<>>
    /\ unreadNotificationsCount = 0
    /\ lastMessageTime = <<>>
    /\ replyTo = NoMessage
    /\ socketOpen = FALSE
    /\ listeners = [k \in EventKinds |-> 0]
    /\ emitted = 0
    /\ event = NoEvent
    /\ pending = 0
    /\ inflight = {}
    /\ onlineUsers = {}
    /\ presenceLog = <<>>
    /\ sent = 0
    /\ settled = "none"
    /\ op = Op("create", Null, Null)

\* no listener is being called: a store method or a settled request may run
Idle == pending = 0

----------------------------------------------------------------------------
(* Connection lifecycle. *)

\* the socket.on(...) calls of initSocket: one more listener on every event kind
RegisterHandlers(ls) == [k \in DOMAIN ls |-> ls[k] + 1]

\* an initSocket that does not look at isConnected
InitSocketUnguarded(userId) ==
    /\ Idle
    /\ \A k \in EventKinds : listeners[k] < MaxListeners
    /\ socketOpen' = TRUE
    /\ emitted' = emitted + 1
    /\ listeners' = RegisterHandlers(listeners)
    /\ isConnected' = TRUE
    /\ op' = Op("initSocket", userId, "connect")
    /\ settled' = "none"
    /\ UNCHANGED <<users, isLoading, error, messages, notifications,
                   unreadNotificationsCount, lastMessageTime, replyTo,
                   event, pending, inflight,
                   presenceVars, sent>>

InitSocket(userId) ==
    /\ Idle
    /\ IF ~isConnected
       THEN /\ \A k \in EventKinds : listeners[k] < MaxListeners
            /\ socketOpen' = TRUE
            /\ emitted' = emitted + 1
            /\ listeners' = RegisterHandlers(listeners)
            /\ isConnected' = TRUE
            /\ op' = Op("initSocket", userId, "connect")
       ELSE /\ UNCHANGED <<socketOpen, emitted, listeners, isConnected>>
            /\ op' = Op("initSocket", userId, "skip")
    /\ settled' = "none"
    /\ UNCHANGED <<users, isLoading, error, messages, notifications,
                   unreadNotificationsCount, lastMessageTime, replyTo,
                   event, pending, inflight,
                   presenceVars, sent>>

\* a disconnect that closes the channel and leaves isConnected set
DisconnectSocketKeepsFlag ==
    /\ Idle
    /\ IF isConnected
       THEN /\ socketOpen' = FALSE
            /\ op' = Op("disconnectSocket", Null, "disconnect")
       ELSE /\ UNCHANGED socketOpen
            /\ op' = Op("disconnectSocket", Null, "skip")
    /\ settled' = "none"
    /\ UNCHANGED <<users, isLoading, error, isConnected, messages, notifications,
                   unreadNotificationsCount, lastMessageTime, replyTo,
                   listeners, emitted, event, pending, inflight,
                   presenceVars, sent>>

DisconnectSocket ==
    /\ Idle
    /\ IF isConnected
       THEN /\ socketOpen' = FALSE
            /\ isConnected' = FALSE
            /\ op' = Op("disconnectSocket", Null, "disconnect")
       ELSE /\ UNCHANGED <<socketOpen, isConnected>>
            /\ op' = Op("disconnectSocket", Null, "skip")
    /\ settled' = "none"
    /\ UNCHANGED <<users, isLoading, error, messages, notifications,
                   unreadNotificationsCount, lastMessageTime, replyTo,
                   listeners, emitted, event, pending, inflight,
                   presenceVars, sent>>

----------------------------------------------------------------------------
(* Inbound events: the socket calls every listener registered for the kind. *)

Deliver(ev) ==
    /\ Idle
    /\ socketOpen
    /\ listeners[ev.kind] > 0
    /\ event' = ev
    /\ pending' = listeners[ev.kind]
    /\ op' = Op("deliver", ev.kind, Null)
    /\ settled' = "none"
    /\ UNCHANGED <<storeVars, socketVars, inflight,
                   presenceVars, sent>>

\* the end of one listener call
Called == 
    /\ pending' = pending - 1
    /\ event' = IF pending = 1 THEN NoEvent ELSE event

DeliverReceiveMessage ==
    \E m \in InboundMessages :
        /\ Len(messages) + listeners["receive_message"] <= MaxMessages
        /\ Len(notifications) + listeners["receive_message"] <= MaxNotifications
        /\ Deliver([kind |-> "receive_message", message |-> m])

DeliverMessageSent ==
    \E m \in EchoedMessages :
        /\ Len(messages) + listeners["message_sent"] <= MaxMessages
        /\ Deliver([kind |-> "message_sent", message |-> m])

DeliverMessageUnsent ==
    \E id \in MsgIds : Deliver([kind |-> "message_unsent", messageId |-> id])

\* the notification built by the receive_message listener
NewNotification(message, sender) ==
    [id |-> message._id,
     senderId |-> message.senderId,
     senderName |-> sender.fullName,
     senderImageUrl |-> sender.imageUrl,
     content |-> message.content,
     timestamp |-> message.createdAt,
     isRead |-> FALSE,
     type |-> "message"]

\* first set() of the receive_message listener
ReceiveLedger(msgs, message) == Append(msgs, message)

ReceiveLastMessageTime(lmt, message) ==
    MapSet(lmt, message.senderId, DateGetTime(message.createdAt))

\* a notification put behind the others
ReceiveNotificationsLast(ns, notification) == Append(ns, notification)

\* second set() of the receive_message listener
ReceiveNotifications(ns, notification) == <<notification>> \o ns

ReceiveUnread(count) == count + 1

OnReceiveMessage ==
    /\ pending > 0
    /\ event.kind = "receive_message"
    /\ messages' = ReceiveLedger(messages, event.message)
    /\ lastMessageTime' = ReceiveLastMessageTime(lastMessageTime, event.message)
    /\ LET sender == FindUser(users, event.message.senderId) IN
         IF sender # 0
         THEN /\ notifications' =
                     ReceiveNotifications(notifications,
                                          NewNotification(event.message, users[sender]))
              /\ unreadNotificationsCount' = ReceiveUnread(unreadNotificationsCount)
              /\ op' = Op("on:receive_message", event.message._id, "notified")
         ELSE /\ UNCHANGED <<notifications, unreadNotificationsCount>>
              /\ op' = Op("on:receive_message", event.message._id, "unknown sender")
    /\ Called
    /\ settled' = "none"
    /\ UNCHANGED <<users, isLoading, error, isConnected, replyTo, socketVars, inflight,
                   presenceVars, sent>>

OnMessageUnsent ==
    /\ pending > 0
    /\ event.kind = "message_unsent"
    /\ messages' = FilterMessages(messages, event.messageId)
    /\ op' = Op("on:message_unsent", event.messageId,
                IF \E i \in DOMAIN messages : messages[i]._id = event.messageId
                THEN "removed" ELSE "absent")
    /\ Called
    /\ settled' = "none"
    /\ UNCHANGED <<users, isLoading, error, isConnected, notifications,
                   unreadNotificationsCount, lastMessageTime, replyTo,
                   socketVars, inflight,
                   presenceVars, sent>>

SentLastMessageTime(lmt, message) ==
    MapSet(lmt, message.receiverId, DateGetTime(message.createdAt))

OnMessageSent ==
    /\ pending > 0
    /\ event.kind = "message_sent"
    /\ messages' = Append(messages, event.message)
    /\ lastMessageTime' = SentLastMessageTime(lastMessageTime, event.message)
    /\ op' = Op("on:message_sent", event.message._id, Null)
    /\ Called
    /\ settled' = "none"
    /\ UNCHANGED <<users, isLoading, error, isConnected, notifications,
                   unreadNotificationsCount, replyTo, socketVars, inflight,
                   presenceVars, sent>>

----------------------------------------------------------------------------
(* Notification methods. *)

\* a mark that flips isRead
MarkReadToggles(ns, notificationId) ==
    [i \in DOMAIN ns |->
        IF ns[i].id = notificationId THEN [ns[i] EXCEPT !.isRead = ~ns[i].isRead] ELSE ns[i]]

\* ns.map((n) => n.id === notificationId ? { ...n, isRead: true } : n)
MarkRead(ns, notificationId) ==
    [i \in DOMAIN ns |->
        IF ns[i].id = notificationId THEN [ns[i] EXCEPT !.isRead = TRUE] ELSE ns[i]]

MarkUnread(count) == MaxZero(count - 1)

\* what the call finds at notificationId: the first entry's state, or "absent"
Found(ns, notificationId) ==
    LET i == FindNotification(ns, notificationId) IN
        IF i = 0 THEN "absent" ELSE IF ns[i].isRead THEN "read" ELSE "unread"

MarkNotificationAsRead(notificationId) ==
    /\ Idle
    /\ notifications' = MarkRead(notifications, notificationId)
    /\ unreadNotificationsCount' = MarkUnread(unreadNotificationsCount)
    /\ op' = Op("markNotificationAsRead", notificationId,
                Found(notifications, notificationId))
    /\ settled' = "none"
    /\ UNCHANGED <<users, isLoading, error, isConnected, messages, lastMessageTime,
                   replyTo, socketVars, event, pending, inflight,
                   presenceVars, sent>>

DismissUnread(ns, count, notificationId) ==
    LET notification == FindNotification(ns, notificationId)
        wasUnread == notification # 0 /\ ~ns[notification].isRead
    IN  IF wasUnread THEN MaxZero(count - 1) ELSE count

DismissNotification(notificationId) ==
    /\ Idle
    /\ notifications' = FilterNotifications(notifications, notificationId)
    /\ unreadNotificationsCount' =
           DismissUnread(notifications, unreadNotificationsCount, notificationId)
    /\ op' = Op("dismissNotification", notificationId,
                Found(notifications, notificationId))
    /\ settled' = "none"
    /\ UNCHANGED <<users, isLoading, error, isConnected, messages, lastMessageTime,
                   replyTo, socketVars, event, pending, inflight,
                   presenceVars, sent>>

----------------------------------------------------------------------------
(* Async methods: the step up to the await, and the step after it settles. *)

Request(kind, arg) == [kind |-> kind, arg |-> arg]

\* the method runs up to its await: the request is sent
Await(req) ==
    /\ Idle
    /\ Cardinality(inflight) < MaxInflight
    /\ req \notin inflight
    /\ inflight' = inflight \cup {req}

\* the awaited request settles and the method resumes
Settle(req) ==
    /\ Idle
    /\ req \in inflight
    /\ inflight' = inflight \ {req}

\* an error text with no fallback on error.message
CaughtErrorNoFallback(e) == e.response

\* error.response?.data?.message || error.message
CaughtError(e) == IF e.response # Null /\ e.response # "" THEN e.response ELSE e.message

\* who called fetchUsers: the application (Null) or a follow action of the store
FetchUsersCallers == {Null, "acceptFollowRequest", "rejectFollowRequest"}

FetchUsers ==
    /\ Await(Request("fetchUsers", Null))
    /\ isLoading' = TRUE
    /\ error' = Null
    /\ op' = Op("fetchUsers", Null, "await")
    /\ settled' = "none"
    /\ UNCHANGED <<users, isConnected, messages, notifications, unreadNotificationsCount,
                   lastMessageTime, replyTo, socketVars, event, pending,
                   presenceVars, sent>>

FetchUsersResolved ==
    \E caller \in FetchUsersCallers : \E data \in UserLists :
        /\ Settle(Request("fetchUsers", caller))
        /\ users' = data
        /\ isLoading' = FALSE
        /\ op' = Op("fetchUsers", caller, "resolved")
        /\ settled' = "fulfilled"
        /\ UNCHANGED <<error, isConnected, messages, notifications,
                       unreadNotificationsCount, lastMessageTime, replyTo,
                       socketVars, event, pending,
                       presenceVars, sent>>

FetchUsersRejected ==
    \E caller \in FetchUsersCallers : \E e \in AxiosErrors :
        /\ Settle(Request("fetchUsers", caller))
        /\ error' = CaughtError(e)
        /\ isLoading' = FALSE
        /\ op' = Op("fetchUsers", caller, "rejected")
        /\ settled' = "fulfilled"
        /\ UNCHANGED <<users, isConnected, messages, notifications,
                       unreadNotificationsCount, lastMessageTime, replyTo,
                       socketVars, event, pending,
                       presenceVars, sent>>

FetchMessages ==
    \E userId \in Peers :
        /\ Await(Request("fetchMessages", userId))
        /\ isLoading' = TRUE
        /\ error' = Null
        /\ op' = Op("fetchMessages", userId, "await")
        /\ settled' = "none"
        /\ UNCHANGED <<users, isConnected, messages, notifications,
                       unreadNotificationsCount, lastMessageTime, replyTo,
                       socketVars, event, pending,
                       presenceVars, sent>>

FetchMessagesResolved ==
    \E userId \in Peers : \E data \in Conversations(userId) :
        /\ Settle(Request("fetchMessages", userId))
        /\ messages' = data
        /\ isLoading' = FALSE
        /\ op' = Op("fetchMessages", userId, "resolved")
        /\ settled' = "fulfilled"
        /\ UNCHANGED <<users, error, isConnected, notifications,
                       unreadNotificationsCount, lastMessageTime, replyTo,
                       socketVars, event, pending,
                       presenceVars, sent>>

FetchMessagesRejected ==
    \E userId \in Peers : \E e \in AxiosErrors :
        /\ Settle(Request("fetchMessages", userId))
        /\ error' = CaughtError(e)
        /\ isLoading' = FALSE
        /\ op' = Op("fetchMessages", userId, "rejected")
        /\ settled' = "fulfilled"
        /\ UNCHANGED <<users, isConnected, messages, notifications,
                       unreadNotificationsCount, lastMessageTime, replyTo,
                       socketVars, event, pending,
                       presenceVars, sent>>

Queries == {"b"}

SearchUsers ==
    \E query \in Queries :
        /\ Await(Request("searchUsers", query))
        /\ isLoading' = TRUE
        /\ error' = Null
        /\ op' = Op("searchUsers", query, "await")
        /\ settled' = "none"
        /\ UNCHANGED <<users, isConnected, messages, notifications,
                       unreadNotificationsCount, lastMessageTime, replyTo,
                       socketVars, event, pending,
                       presenceVars, sent>>

SearchUsersResolved ==
    \E query \in Queries : \E data \in UserLists :
        /\ Settle(Request("searchUsers", query))
        /\ users' = data
        /\ isLoading' = FALSE
        /\ op' = Op("searchUsers", query, "resolved")
        /\ settled' = "fulfilled"
        /\ UNCHANGED <<error, isConnected, messages, notifications,
                       unreadNotificationsCount, lastMessageTime, replyTo,
                       socketVars, event, pending,
                       presenceVars, sent>>

SearchUsersRejected ==
    \E query \in Queries : \E e \in AxiosErrors :
        /\ Settle(Request("searchUsers", query))
        /\ error' = CaughtError(e)
        /\ isLoading' = FALSE
        /\ op' = Op("searchUsers", query, "rejected")
        /\ settled' = "fulfilled"
        /\ UNCHANGED <<users, isConnected, messages, notifications,
                       unreadNotificationsCount, lastMessageTime, replyTo,
                       socketVars, event, pending,
                       presenceVars, sent>>

UnsendMessage ==
    \E messageId \in MsgIds :
        /\ Await(Request("unsendMessage", messageId))
        /\ op' = Op("unsendMessage", messageId, "await")
        /\ settled' = "none"
        /\ UNCHANGED <<storeVars, socketVars, event, pending,
                       presenceVars, sent>>

UnsendMessageResolved ==
    \E messageId \in MsgIds :
        /\ Settle(Request("unsendMessage", messageId))
        /\ messages' = FilterMessages(messages, messageId)
        /\ op' = Op("unsendMessage", messageId,
                    IF \E i \in DOMAIN messages : messages[i]._id = messageId
                    THEN "removed" ELSE "absent")
        /\ settled' = "fulfilled"
        /\ UNCHANGED <<users, isLoading, error, isConnected, notifications,
                       unreadNotificationsCount, lastMessageTime, replyTo,
                       socketVars, event, pending,
                       presenceVars, sent>>

\* an unsend that reports its failure in the store, as the fetches do
UnsendMessageRejectedSetsError ==
    \E messageId \in MsgIds : \E e \in AxiosErrors :
        /\ Settle(Request("unsendMessage", messageId))
        /\ error' = CaughtError(e)
        /\ op' = Op("unsendMessage", messageId, "rejected")
        /\ settled' = "fulfilled"
        /\ UNCHANGED <<users, isLoading, isConnected, messages, notifications,
                       unreadNotificationsCount, lastMessageTime, replyTo,
                       socketVars, event, pending, presenceVars, sent>>

UnsendMessageRejected ==
    \E messageId \in MsgIds :
        /\ Settle(Request("unsendMessage", messageId))
        /\ op' = Op("unsendMessage", messageId, "rejected")
        /\ settled' = "fulfilled"
        /\ UNCHANGED <<storeVars, socketVars, event, pending,
                       presenceVars, sent>>

\* the messages POST /users/messages/reply answers with
ReplyMessages(receiverId) == {Message(i, Me, receiverId) : i \in MsgIds}

SendReplyMessage ==
    \E receiverId \in {"u2"} :
        /\ Await(Request("sendReplyMessage", receiverId))
        /\ op' = Op("sendReplyMessage", receiverId, "await")
        /\ settled' = "none"
        /\ UNCHANGED <<storeVars, socketVars, event, pending,
                       presenceVars, sent>>

\* a reply that leaves the reply context set
SendReplyMessageResolvedKeepsReply ==
    \E receiverId \in {"u2"} : \E newMessage \in ReplyMessages(receiverId) :
        /\ Len(messages) < MaxMessages
        /\ Settle(Request("sendReplyMessage", receiverId))
        /\ messages' = Append(messages, newMessage)
        /\ op' = Op("sendReplyMessage", newMessage._id, "resolved")
        /\ settled' = "fulfilled"
        /\ UNCHANGED <<users, isLoading, error, isConnected, notifications,
                       unreadNotificationsCount, lastMessageTime, replyTo,
                       socketVars, event, pending,
                       presenceVars, sent>>

SendReplyMessageResolved ==
    \E receiverId \in {"u2"} : \E newMessage \in ReplyMessages(receiverId) :
        /\ Len(messages) < MaxMessages
        /\ Settle(Request("sendReplyMessage", receiverId))
        /\ messages' = Append(messages, newMessage)
        /\ replyTo' = NoMessage
        /\ op' = Op("sendReplyMessage", newMessage._id, "resolved")
        /\ settled' = "fulfilled"
        /\ UNCHANGED <<users, isLoading, error, isConnected, notifications,
                       unreadNotificationsCount, lastMessageTime,
                       socketVars, event, pending,
                       presenceVars, sent>>

SendReplyMessageRejected ==
    \E receiverId \in {"u2"} :
        /\ Settle(Request("sendReplyMessage", receiverId))
        /\ op' = Op("sendReplyMessage", receiverId, "rejected")
        /\ settled' = "fulfilled"
        /\ UNCHANGED <<storeVars, socketVars, event, pending,
                       presenceVars, sent>>

----------------------------------------------------------------------------
(* Follow actions. *)

Requesters == {"u3"}

\* await axiosInstance.post("/users/follow/accept" or "/users/follow/reject")
FollowCommand(name) ==
    \E requesterId \in Requesters :
        /\ Await(Request(name, requesterId))
        /\ op' = Op(name, requesterId, "await")
        /\ settled' = "none"
        /\ UNCHANGED <<storeVars, socketVars, event, pending, presenceVars, sent>>

\* the post resolved: await get().fetchUsers() runs fetchUsers up to its await
FollowCommandResolved(name) ==
    \E requesterId \in Requesters :
        /\ Idle
        /\ Request(name, requesterId) \in inflight
        /\ Request("fetchUsers", name) \notin inflight
        /\ inflight' = (inflight \ {Request(name, requesterId)})
                           \cup {Request("fetchUsers", name)}
        /\ isLoading' = TRUE
        /\ error' = Null
        /\ op' = Op(name, requesterId, "resolved")
        /\ settled' = "none"
        /\ UNCHANGED <<users, isConnected, messages, notifications,
                       unreadNotificationsCount, lastMessageTime, replyTo,
                       socketVars, event, pending, presenceVars, sent>>

\* the post rejected: the method throws, fetchUsers is not reached
FollowCommandRejected(name) ==
    \E requesterId \in Requesters :
        /\ Settle(Request(name, requesterId))
        /\ op' = Op(name, requesterId, "rejected")
        /\ settled' = "rejected"
        /\ UNCHANGED <<storeVars, socketVars, event, pending, presenceVars, sent>>

\* an accept that does not wait for its post before it refreshes the directory
AcceptFollowRequestNoAwait ==
    \E requesterId \in Requesters :
        /\ Idle
        /\ Request("acceptFollowRequest", requesterId) \notin inflight
        /\ Request("fetchUsers", "acceptFollowRequest") \notin inflight
        /\ inflight' = inflight \cup {Request("acceptFollowRequest", requesterId),
                                      Request("fetchUsers", "acceptFollowRequest")}
        /\ isLoading' = TRUE
        /\ error' = Null
        /\ op' = Op("acceptFollowRequest", requesterId, "await")
        /\ settled' = "none"
        /\ UNCHANGED <<users, isConnected, messages, notifications,
                       unreadNotificationsCount, lastMessageTime, replyTo,
                       socketVars, event, pending, presenceVars, sent>>

AcceptFollowRequest == FollowCommand("acceptFollowRequest")

AcceptFollowRequestResolved == FollowCommandResolved("acceptFollowRequest")

AcceptFollowRequestRejected == FollowCommandRejected("acceptFollowRequest")

RejectFollowRequest == FollowCommand("rejectFollowRequest")

RejectFollowRequestResolved == FollowCommandResolved("rejectFollowRequest")

RejectFollowRequestRejected == FollowCommandRejected("rejectFollowRequest")

----------------------------------------------------------------------------
(* Presence. *)

\* the lists users_online carries
OnlineLists == SeqsUpTo(Peers, Cardinality(Peers))

\* new Set(users)
SetOf(list) == {list[i] : i \in DOMAIN list}

\* a handler that adds the snapshot to the set it finds
UsersOnlineMerged(current, list) == current \cup SetOf(list)

\* the users_online handler: the snapshot replaces the set
UsersOnline(current, list) == SetOf(list)

\* new Set([...state.onlineUsers, userId])
UserConnected(current, userId) == current \cup {userId}

\* newOnlineUsers.delete(userId)
UserDisconnected(current, userId) == current \ {userId}

DeliverUsersOnline ==
    \E list \in OnlineLists :
        LET ev == [kind |-> "users_online", users |-> list] IN
            /\ Idle
            /\ socketOpen
            /\ listeners[ev.kind] > 0
            /\ event' = ev
            /\ pending' = listeners[ev.kind]
            /\ presenceLog' = <<ev>>
            /\ op' = Op("deliver", ev.kind, Null)
            /\ settled' = "none"
            /\ UNCHANGED <<storeVars, socketVars, inflight, onlineUsers, sent>>

DeliverPresenceChange(kind) ==
    \E userId \in Peers :
        LET ev == [kind |-> kind, userId |-> userId] IN
            /\ Idle
            /\ socketOpen
            /\ listeners[ev.kind] > 0
            /\ Len(presenceLog) < MaxPresenceLog
            /\ event' = ev
            /\ pending' = listeners[ev.kind]
            /\ presenceLog' = Append(presenceLog, ev)
            /\ op' = Op("deliver", ev.kind, Null)
            /\ settled' = "none"
            /\ UNCHANGED <<storeVars, socketVars, inflight, onlineUsers, sent>>

DeliverUserConnected == DeliverPresenceChange("user_connected")

DeliverUserDisconnected == DeliverPresenceChange("user_disconnected")

OnUsersOnline ==
    /\ pending > 0
    /\ event.kind = "users_online"
    /\ onlineUsers' = UsersOnline(onlineUsers, event.users)
    /\ op' = Op("on:users_online", Null, Null)
    /\ Called
    /\ settled' = "none"
    /\ UNCHANGED <<storeVars, socketVars, inflight, presenceLog, sent>>

OnUserConnected ==
    /\ pending > 0
    /\ event.kind = "user_connected"
    /\ onlineUsers' = UserConnected(onlineUsers, event.userId)
    /\ op' = Op("on:user_connected", event.userId,
                IF event.userId \in onlineUsers THEN "present" ELSE "added")
    /\ Called
    /\ settled' = "none"
    /\ UNCHANGED <<storeVars, socketVars, inflight, presenceLog, sent>>

OnUserDisconnected ==
    /\ pending > 0
    /\ event.kind = "user_disconnected"
    /\ onlineUsers' = UserDisconnected(onlineUsers, event.userId)
    /\ op' = Op("on:user_disconnected", event.userId,
                IF event.userId \in onlineUsers THEN "removed" ELSE "absent")
    /\ Called
    /\ settled' = "none"
    /\ UNCHANGED <<storeVars, socketVars, inflight, presenceLog, sent>>

----------------------------------------------------------------------------
(* Sending and the reply context. *)

SendMessage ==
    \E receiverId \in {"u2"} :
        /\ Idle
        /\ sent < MaxSends
        /\ sent' = sent + 1
        /\ op' = Op("sendMessage", receiverId, "emit")
        /\ settled' = "fulfilled"
        /\ UNCHANGED <<storeVars, socketVars, event, pending, inflight, presenceVars>>

\* the messages the caller can reply to: those of the ledger, or none
ReplyTargets == {messages[i] : i \in DOMAIN messages} \cup {NoMessage}

SetReplyTo ==
    \E message \in ReplyTargets :
        /\ Idle
        /\ replyTo' = message
        /\ op' = Op("setReplyTo", message._id, Null)
        /\ settled' = "none"
        /\ UNCHANGED <<users, isLoading, error, isConnected, messages, notifications,
                       unreadNotificationsCount, lastMessageTime,
                       socketVars, event, pending, inflight, presenceVars, sent>>

----------------------------------------------------------------------------
(* Specifications. *)

\* notifications: the directory is fetched, messages arrive, notifications are
\* marked read and dismissed
NextNotifications ==
    \/ \E userId \in {Me} : InitSocket(userId)
    \/ FetchUsers
    \/ FetchUsersResolved
    \/ DeliverReceiveMessage
    \/ OnReceiveMessage
    \/ \E id \in MsgIds : MarkNotificationAsRead(id)
    \/ \E id \in MsgIds : DismissNotification(id)

SpecNotifications == Init /\ [][NextNotifications]_vars

\* connection lifecycle: connects, disconnects and the events delivered in between
NextConnection ==
    \/ \E userId \in {Me} : InitSocket(userId)
    \/ DisconnectSocket
    \/ DeliverReceiveMessage
    \/ DeliverMessageSent
    \/ DeliverMessageUnsent
    \/ OnReceiveMessage
    \/ OnMessageUnsent
    \/ OnMessageSent

SpecConnection == Init /\ [][NextConnection]_vars

\* the ledger: every operation that writes messages
NextLedger ==
    \/ \E userId \in {Me} : InitSocket(userId)
    \/ DeliverReceiveMessage
    \/ DeliverMessageSent
    \/ DeliverMessageUnsent
    \/ OnReceiveMessage
    \/ OnMessageUnsent
    \/ OnMessageSent
    \/ FetchMessages
    \/ FetchMessagesResolved
    \/ FetchMessagesRejected
    \/ UnsendMessage
    \/ UnsendMessageResolved
    \/ UnsendMessageRejected
    \/ SendReplyMessage
    \/ SendReplyMessageResolved
    \/ SendReplyMessageRejected

SpecLedger == Init /\ [][NextLedger]_vars

\* the fetches that report their failure in the store
NextFetch ==
    \/ \E userId \in {Me} : InitSocket(userId)
    \/ DeliverMessageSent
    \/ OnMessageSent
    \/ FetchUsers
    \/ FetchUsersResolved
    \/ FetchUsersRejected
    \/ FetchMessages
    \/ FetchMessagesResolved
    \/ FetchMessagesRejected
    \/ SearchUsers
    \/ SearchUsersResolved
    \/ SearchUsersRejected

SpecFetch == Init /\ [][NextFetch]_vars

\* the follow actions and the directory refresh they end with
NextFollow ==
    \/ FetchUsers
    \/ FetchUsersResolved
    \/ FetchUsersRejected
    \/ AcceptFollowRequest
    \/ AcceptFollowRequestResolved
    \/ AcceptFollowRequestRejected
    \/ RejectFollowRequest
    \/ RejectFollowRequestResolved
    \/ RejectFollowRequestRejected

SpecFollow == Init /\ [][NextFollow]_vars

\* presence: connects, disconnects and the presence events delivered in between
NextPresence ==
    \/ \E userId \in {Me} : InitSocket(userId)
    \/ DisconnectSocket
    \/ DeliverUsersOnline
    \/ DeliverUserConnected
    \/ DeliverUserDisconnected
    \/ OnUsersOnline
    \/ OnUserConnected
    \/ OnUserDisconnected

SpecPresence == Init /\ [][NextPresence]_vars

\* sending: the socket send and its echo, retraction, the reply context, the
\* best-effort commands
NextReply ==
    \/ \E userId \in {Me} : InitSocket(userId)
    \/ SendMessage
    \/ DeliverMessageSent
    \/ DeliverMessageUnsent
    \/ OnMessageSent
    \/ OnMessageUnsent
    \/ SetReplyTo
    \/ SendReplyMessage
    \/ SendReplyMessageResolved
    \/ SendReplyMessageRejected
    \/ UnsendMessage
    \/ UnsendMessageResolved
    \/ UnsendMessageRejected

SpecReply == Init /\ [][NextReply]_vars

----------------------------------------------------------------------------
(* Vocabulary of the properties. *)

\* the entries of the notification list that are not read
UnreadEntries == {i \in DOMAIN notifications : ~notifications[i].isRead}

\* one listener is being called in this step
ListenerCall(kind) == pending > 0 /\ event.kind = kind /\ pending' = pending - 1

\* the first entry of ns with this id is unread
FirstIsUnread(ns, id) ==
    \E i \in DOMAIN ns :
        /\ ns[i].id = id
        /\ ~ns[i].isRead
        /\ \A j \in 1..(i - 1) : ns[j].id # id

\* the epoch milliseconds of the server's stamps
MillisOf(id) == IF id = "m1" THEN 1000 ELSE 2000

----------------------------------------------------------------------------
(* Properties. *)

\* C1: unreadNotificationsCount equals the number of entries of notifications
\* whose isRead is false, in every state reached by receive_message events,
\* markNotificationAsRead calls and dismissNotification calls.
\* Violated: markNotificationAsRead decrements the count whatever it finds.
C1_UnreadCountMatchesList ==
    unreadNotificationsCount = Cardinality(UnreadEntries)

\* C2: unreadNotificationsCount is never negative.
C2_UnreadCountNonNegative ==
    unreadNotificationsCount >= 0

\* C2 witness: a call that started from a count of zero has run.
C2_Witness ==
    /\ op.name \in {"markNotificationAsRead", "dismissNotification"}
    /\ op.unreadBefore = 0
    /\ op.branch = "unread"
    /\ unreadNotificationsCount = 0

\* C3: with no disconnectSocket in between, an initSocket call made while
\* connected changes nothing (no listener added, no user_connected emitted, no
\* store field written), and every inbound event is then applied by exactly one
\* listener call.
C3_SecondInitSocketIsNoOp ==
    [][/\ (isConnected /\ op'.name = "initSocket")
            => UNCHANGED <<storeVars, socketVars, event, pending, inflight,
                          presenceVars, sent>>
       /\ (\E k \in EventKinds : ListenerCall(k))
            => (pending = 1 /\ pending' = 0)]_vars

\* C3 witness: initSocket was called while connected, and one listener per kind
\* is registered.
C3_Witness ==
    /\ op.name = "initSocket"
    /\ op.branch = "skip"
    /\ \A k \in EventKinds : listeners[k] = 1
    /\ emitted = 1
    /\ messages # <<>>

\* C4: for any sequence of initSocket and disconnectSocket calls every event kind
\* has at most one listener, so a delivered event is applied at most once.
\* Violated: disconnectSocket leaves the listeners on the module-level socket and
\* the next initSocket registers them again.
C4_OneListenerPerKind ==
    /\ \A k \in EventKinds : listeners[k] <= 1
    /\ pending <= 1

\* C5: one receive_message listener call for a message m whose sender is in the
\* directory appends m to messages, sets lastMessageTime[m.senderId] to the time
\* of m.createdAt, puts one unread "message" notification with m's id and the
\* sender's directory name in front of the others, and adds one to the count.
C5_ReceiveFromKnownSender ==
    [][(/\ ListenerCall("receive_message")
        /\ \E i \in DOMAIN users : users[i].clerkId = event.message.senderId)
       => LET m == event.message IN
            /\ Len(messages') = Len(messages) + 1
            /\ SubSeq(messages', 1, Len(messages)) = messages
            /\ messages'[Len(messages')] = m
            /\ m.senderId \in DOMAIN lastMessageTime'
            /\ lastMessageTime'[m.senderId] = MillisOf(m._id)
            /\ Len(notifications') = Len(notifications) + 1
            /\ notifications'[1].id = m._id
            /\ notifications'[1].type = "message"
            /\ notifications'[1].isRead = FALSE
            /\ notifications'[1].senderName = FullNameOf(m.senderId)
            /\ Tail(notifications') = notifications
            /\ unreadNotificationsCount' = unreadNotificationsCount + 1]_vars

\* C5 witness: a notification was put in front of an earlier one.
C5_Witness ==
    /\ op.name = "on:receive_message"
    /\ op.branch = "notified"
    /\ Len(notifications) >= 2
    /\ notifications[1].id = op.arg
    /\ unreadNotificationsCount = op.unreadBefore + 1

\* C6: one receive_message listener call for a message m whose sender is not in
\* the directory appends m to messages and sets lastMessageTime[m.senderId], and
\* leaves notifications and unreadNotificationsCount as they were.
C6_ReceiveFromUnknownSender ==
    [][(/\ ListenerCall("receive_message")
        /\ \A i \in DOMAIN users : users[i].clerkId # event.message.senderId)
       => LET m == event.message IN
            /\ messages' = messages \o <<m>>
            /\ m.senderId \in DOMAIN lastMessageTime'
            /\ lastMessageTime'[m.senderId] = MillisOf(m._id)
            /\ notifications' = notifications
            /\ unreadNotificationsCount' = unreadNotificationsCount]_vars

\* C6 witness: a message of a sender missing from a non-empty directory was
\* handled while a notification was in the list.
C6_Witness ==
    /\ op.name = "on:receive_message"
    /\ op.branch = "unknown sender"
    /\ users # <<>>
    /\ notifications # <<>>
    /\ messages # <<>>
    /\ messages[Len(messages)]._id = op.arg

\* C7: message ids are unique within the ledger in every reachable state.
\* Violated: the receive_message and message_sent listeners and sendReplyMessage
\* append without looking for the id.
C7_MessageIdsUnique ==
    \A i, j \in DOMAIN messages : i # j => messages[i]._id # messages[j]._id

\* C8: dismissNotification(id) removes the entry with that id and keeps the
\* others in order; it takes exactly one off the count when the removed entry
\* was unread and leaves the count alone when it was read or absent.
\* Violated: the count is floored at zero, and markNotificationAsRead (C1) can
\* bring it to zero while an unread entry is in the list.
C8_DismissCounts ==
    [][(op'.name = "dismissNotification")
       => LET id == op'.arg IN
            /\ notifications' = SelectSeq(notifications, LAMBDA n : n.id # id)
            /\ unreadNotificationsCount' =
                   IF FirstIsUnread(notifications, id)
                   THEN unreadNotificationsCount - 1
                   ELSE unreadNotificationsCount]_vars

\* C9: a message_unsent listener call, and a resolved unsendMessage, leave a
\* ledger with no message of that id and the other messages in their order;
\* the ledger is unchanged when no message has the id, and applying the removal
\* again changes nothing.
C9_UnsendRemovesById ==
    [][(\/ ListenerCall("message_unsent")
        \/ (op'.name = "unsendMessage" /\ op'.branch \in {"removed", "absent"}))
       => LET id == op'.arg IN
            /\ \A i \in DOMAIN messages' : messages'[i]._id # id
            /\ messages' = SelectSeq(messages, LAMBDA m : m._id # id)
            /\ (\A i \in DOMAIN messages : messages[i]._id # id) => messages' = messages
            /\ FilterMessages(messages', id) = messages']_vars

\* C9 witness: a message_unsent listener call removed a message and kept another.
C9_Witness ==
    /\ op.name = "on:message_unsent"
    /\ op.branch = "removed"
    /\ messages # <<>>
    /\ \A i \in DOMAIN messages : messages[i]._id # op.arg

\* C10: a rejected fetchMessages leaves messages as they were, a rejected
\* fetchUsers or searchUsers leaves users as they were; each sets error to a
\* non-null value and ends with isLoading false.
C10_RejectedFetch ==
    [][(op'.branch = "rejected" /\ op'.name \in {"fetchMessages", "fetchUsers", "searchUsers"})
       => /\ op'.name = "fetchMessages" => messages' = messages
          /\ op'.name \in {"fetchUsers", "searchUsers"} => users' = users
          /\ error' # Null
          /\ error' \in {"Unauthorized", "Network Error"}
          /\ isLoading' = FALSE]_vars

\* C10 witness: a fetchMessages was rejected while the ledger held messages and
\* the directory held users.
C10_Witness ==
    /\ op.name = "fetchMessages"
    /\ op.branch = "rejected"
    /\ messages # <<>>
    /\ users # <<>>
    /\ error # Null
    /\ ~isLoading

\* the fetchUsers requests sent in this step
FetchUsersStarted == {r \in inflight' \ inflight : r.kind = "fetchUsers"}

\* C11: an acceptFollowRequest whose command resolves starts exactly one
\* fetchUsers, in the step in which the command completes and not in the step
\* that sends the command.
C11_AcceptThenOneFetchUsers ==
    [][/\ (op'.name = "acceptFollowRequest" /\ op'.branch = "await")
            => /\ FetchUsersStarted = {}
               /\ inflight' \ inflight = {Request("acceptFollowRequest", op'.arg)}
               /\ isLoading' = isLoading
       /\ (op'.name = "acceptFollowRequest" /\ op'.branch = "resolved")
            => /\ Request("acceptFollowRequest", op'.arg) \in inflight \ inflight'
               /\ Cardinality(FetchUsersStarted) = 1
               /\ inflight' \ inflight = FetchUsersStarted
               /\ isLoading']_vars

\* C11 witness: the accept command resolved and its fetchUsers is in flight.
C11_Witness ==
    /\ op.name = "acceptFollowRequest"
    /\ op.branch = "resolved"
    /\ Request("fetchUsers", "acceptFollowRequest") \in inflight
    /\ \A r \in inflight : r.kind # "acceptFollowRequest"
    /\ isLoading

\* C12: every acceptFollowRequest and rejectFollowRequest starts a fetchUsers when
\* its command settles, resolved or rejected.
\* Violated: a rejected post throws out of the method before fetchUsers.
C12_FollowAlwaysRefreshes ==
    [][(/\ op'.name \in {"acceptFollowRequest", "rejectFollowRequest"}
        /\ op'.branch \in {"resolved", "rejected"})
       => FetchUsersStarted # {}]_vars

RECURSIVE Replay(_, _)
\* the presence set a log of events leaves, applied in order to the set `online`
Replay(log, online) ==
    IF log = <<>> THEN online
    ELSE LET ev == Head(log) IN
         Replay(Tail(log),
                CASE ev.kind = "users_online" -> {u \in Peers : \E i \in DOMAIN ev.users : ev.users[i] = u}
                  [] ev.kind = "user_connected" -> online \cup {ev.userId}
                  [] ev.kind = "user_disconnected" -> online \ {ev.userId})

\* C13: once the listeners of a delivered event have run, onlineUsers is the list
\* of the last users_online plus the ids connected and minus the ids
\* disconnected after it, in delivery order; a user_connected for an id in the
\* set and a user_disconnected for an id not in it change nothing.
C13_PresenceIsSnapshotPlusDeltas ==
    /\ [](Idle => onlineUsers = Replay(presenceLog, {}))
    /\ [][/\ (ListenerCall("user_connected") /\ event.userId \in onlineUsers)
               => onlineUsers' = onlineUsers
          /\ (ListenerCall("user_disconnected") /\ event.userId \notin onlineUsers)
               => onlineUsers' = onlineUsers]_vars

\* C13 witness: a users_online that followed other presence events was handled,
\* then a connect and a disconnect, and a user is online.
C13_Witness ==
    /\ Idle
    /\ op.name = "on:user_disconnected"
    /\ op.branch = "removed"
    /\ Len(presenceLog) = 3
    /\ presenceLog[1].kind = "users_online"
    /\ presenceLog[2].kind = "user_connected"
    /\ onlineUsers # {}

\* C14: after a receive_message or message_sent listener call and after a
\* resolved sendReplyMessage, lastMessageTime of the other party of the message
\* is the time of its createdAt.
\* Violated: sendReplyMessage appends the message and leaves lastMessageTime alone.
C14_LastMessageTimeCoversAll ==
    [][/\ ListenerCall("receive_message")
            => /\ event.message.senderId \in DOMAIN lastMessageTime'
               /\ lastMessageTime'[event.message.senderId] = MillisOf(event.message._id)
       /\ ListenerCall("message_sent")
            => /\ event.message.receiverId \in DOMAIN lastMessageTime'
               /\ lastMessageTime'[event.message.receiverId] = MillisOf(event.message._id)
       /\ (op'.name = "sendReplyMessage" /\ op'.branch = "resolved")
            => LET m == messages'[Len(messages')] IN
                 /\ m.receiverId \in DOMAIN lastMessageTime'
                 /\ lastMessageTime'[m.receiverId] = MillisOf(m._id)]_vars

\* C15: a resolved sendReplyMessage appends the server's message at the end of
\* messages and sets replyTo to null in the same step; sendMessage leaves
\* messages (and every other store field) as they were.
C15_ReplyAppendsAndClears ==
    [][/\ (op'.name = "sendReplyMessage" /\ op'.branch = "resolved")
            => /\ Len(messages') = Len(messages) + 1
               /\ SubSeq(messages', 1, Len(messages)) = messages
               /\ messages'[Len(messages')] \in ReplyMessages("u2")
               /\ messages'[Len(messages')]._id = op'.arg
               /\ replyTo' = NoMessage
       /\ (op'.name = "sendMessage")
            => /\ messages' = messages
               /\ UNCHANGED storeVars
               /\ sent' = sent + 1]_vars

\* C15 witness: a reply resolved into a ledger that held a message.
C15_Witness ==
    /\ op.name = "sendReplyMessage"
    /\ op.branch = "resolved"
    /\ Len(messages) >= 2
    /\ messages[Len(messages)]._id = op.arg
    /\ replyTo = NoMessage

\* C16: a rejected unsendMessage or sendReplyMessage leaves messages, replyTo,
\* error and isLoading as they were, and the method's promise is fulfilled: the
\* failure is caught, not thrown to the caller.
C16_BestEffortFailureLeavesState ==
    [][(op'.name \in {"unsendMessage", "sendReplyMessage"} /\ op'.branch = "rejected")
       => /\ UNCHANGED <<messages, replyTo, error, isLoading>>
          /\ settled' = "fulfilled"]_vars

\* C16 witness: a reply was rejected while a reply context was set and the
\* ledger held messages.
C16_Witness ==
    /\ op.name = "sendReplyMessage"
    /\ op.branch = "rejected"
    /\ replyTo # NoMessage
    /\ messages # <<>>
    /\ error = Null
    /\ settled = "fulfilled"

\* C17: disconnectSocket called while not connected changes nothing and does not
\* close the channel; called while connected it closes the channel and sets
\* isConnected to false.  isConnected is true exactly when the channel is open,
\* only initSocket opens it, and it is neither opened while open nor closed
\* while closed.
C17_ConnectionFlagTracksChannel ==
    /\ [](isConnected = socketOpen)
    /\ [][/\ (op'.name = "disconnectSocket" /\ ~isConnected)
               => /\ op'.branch = "skip"
                  /\ UNCHANGED <<storeVars, socketVars, event, pending, inflight,
                                 presenceVars, sent>>
          /\ (op'.name = "disconnectSocket" /\ isConnected)
               => /\ op'.branch = "disconnect"
                  /\ socketOpen /\ ~socketOpen'
                  /\ ~isConnected'
          /\ (socketOpen' /\ ~socketOpen) => op'.name = "initSocket"
          /\ (op'.name = "initSocket" /\ op'.branch = "connect") => ~socketOpen
          /\ (op'.branch = "disconnect") => socketOpen]_vars

\* C17 witness: disconnectSocket was called on a closed channel that had been
\* opened and closed before.
C17_Witness ==
    /\ op.name = "disconnectSocket"
    /\ op.branch = "skip"
    /\ \A k \in EventKinds : listeners[k] >= 1
    /\ ~isConnected
    /\ ~socketOpen

\* C18: a message appended by a receive_message or message_sent listener call
\* while a fetchMessages is in flight is still in messages when that fetch
\* resolves (here: the listener call is the step before the resolution).
\* Violated: the resolution replaces messages by the response, which was built
\* before the message was.
C18_NoLostAppend ==
    [][(/\ op.name \in {"on:receive_message", "on:message_sent"}
        /\ op'.name = "fetchMessages"
        /\ op'.branch = "resolved")
       => \E i \in DOMAIN messages' : messages'[i]._id = op.arg]_vars

\* the requests that set isLoading
Loads == {r \in inflight : r.kind \in {"fetchUsers", "fetchMessages", "searchUsers"}}

\* C19: isLoading is true exactly when a fetchUsers, fetchMessages or searchUsers
\* is in flight.
\* Violated: the first of two overlapping fetches to end sets isLoading to false.
C19_LoadingWhileInFlight ==
    isLoading <=> (Loads # {})

\* the ids of a notification list
IdsOf(ns) == {ns[i].id : i \in DOMAIN ns}

\* C20: every notification has type "message"; an id enters the list only in a
\* receive_message listener call for the message of that id, as an unread entry at
\* the head; dismissNotification only removes entries; every other step keeps the
\* entries in place and never turns isRead from true to false.
C20_NotificationLifecycle ==
    /\ [](\A i \in DOMAIN notifications : notifications[i].type = "message")
    /\ [][/\ \A id \in IdsOf(notifications') \ IdsOf(notifications) :
                 ListenerCall("receive_message") /\ event.message._id = id
          /\ ListenerCall("receive_message")
               => \/ notifications' = notifications
                  \/ /\ Tail(notifications') = notifications
                     /\ notifications'[1].id = event.message._id
                     /\ ~notifications'[1].isRead
          /\ (op'.name = "dismissNotification")
               => notifications' = SelectSeq(notifications, LAMBDA n : n.id # op'.arg)
          /\ (~ListenerCall("receive_message") /\ op'.name # "dismissNotification")
               => /\ Len(notifications') = Len(notifications)
                  /\ \A i \in DOMAIN notifications :
                        /\ notifications'[i].id = notifications[i].id
                        /\ notifications[i].isRead => notifications'[i].isRead]_vars

\* C20 witness: a read notification was marked read again, and is read.
C20_Witness ==
    /\ op.name = "markNotificationAsRead"
    /\ op.branch = "read"
    /\ \E i \in DOMAIN notifications :
           notifications[i].id = op.arg /\ notifications[i].isRead

====
